---- MODULE Spec2Model ----
(***************************************************************************)
(* Image-folder to PDF conversion: create_pdf_from_images                  *)
(* (create_mobile_pdfs.py, "plain") and create_mobile_optimized_pdf        *)
(* (create_mobile_optimized_pdfs.py, "mobile"), and the main() of each.    *)
(*                                                                         *)
(* Python floats are binary floating point with round-to-nearest-even.     *)
(* The model keeps that format and rounding rule; a number is <<m, e>>,    *)
(* standing for m * 2^e with 2^(Prec-1) <= |m| < 2^Prec (or m = 0).        *)
(* Python's significand has 53 bits; Prec bounds it so that the products   *)
(* of two significands stay within 32-bit integers.                        *)
(***************************************************************************)
EXTENDS Integers, Sequences, FiniteSets, TLC

\* ------------------------------------------------------------ bounds
Prec == 11        \* significand bits of the modelled float format
MaxDim == 24      \* largest pixel width/height tried by the layout specification
MaxFiles == 3     \* most image files in one source directory

\* ------------------------------------------------------------ float arithmetic
Scripts == {"plain", "mobile"}

Sign(n) == IF n < 0 THEN -1 ELSE 1

Abs(n) == IF n < 0 THEN -n ELSE n

\* n/d (n > 0, d > 0) rounded to Prec significant bits, ties to even.
RECURSIVE Norm(_, _, _)
Norm(n, d, e) ==
    IF n >= (2^Prec) * d THEN Norm(n, 2 * d, e + 1)
    ELSE IF n < (2^(Prec - 1)) * d THEN Norm(2 * n, d, e - 1)
    ELSE LET q == n \div d
             r == n % d
             m == IF 2 * r > d \/ (2 * r = d /\ q % 2 = 1) THEN q + 1 ELSE q
         IN  IF m = 2^Prec THEN <<2^(Prec - 1), e + 1>> ELSE <<m, e>>

\* The float nearest to (n/d) * 2^e.
FRound(n, d, e) ==
    IF n = 0 THEN <<0, 0>>
    ELSE LET r == Norm(Abs(n), d, e) IN <<Sign(n) * r[1], r[2]>>

\* int -> float conversion of an operand.
FInt(n) == FRound(n, 1, 0)

FLit(n, d) == FRound(n, d, 0)

MinExp(a, b) == IF a[2] < b[2] THEN a[2] ELSE b[2]

\* a and b as integers over the common unit 2^MinExp(a, b).
Aligned(a, b) == <<a[1] * 2^(a[2] - MinExp(a, b)), b[1] * 2^(b[2] - MinExp(a, b))>>

FSub(a, b) == FRound(Aligned(a, b)[1] - Aligned(a, b)[2], 1, MinExp(a, b))

FMul(a, b) == FRound(a[1] * b[1], 1, a[2] + b[2])

\* a / b for b # 0 (a zero divisor raises ZeroDivisionError: see RaisesInTry)
FDiv(a, b) == FRound(Sign(b[1]) * a[1], Abs(b[1]), a[2] - b[2])

FLess(a, b) == Aligned(a, b)[1] < Aligned(a, b)[2]

FLeq(a, b) == Aligned(a, b)[1] <= Aligned(a, b)[2]

\* Python's min(a, b): the first argument unless the second is smaller.
FMin(a, b) == IF FLess(b, a) THEN b ELSE a

\* ------------------------------------------------------------ page geometry
\* reportlab.lib.pagesizes.A5 = (148 mm, 210 mm) in points (1 mm = 72/25.4 pt).
A5 == <<FLit(148 * 720, 254), FLit(210 * 720, 254)>>

\* reportlab.lib.pagesizes.portrait: the short side is the width.
portrait(size) == IF FLess(size[2], size[1]) THEN <<size[2], size[1]>> ELSE size

page_size(s) == IF s = "plain" THEN A5 ELSE portrait(A5)

page_width(s) == page_size(s)[1]

page_height(s) == page_size(s)[2]

MarginPlain == 20
MarginMobile == 15
PageNumberSpace == 25

margin(s) == IF s = "plain" THEN MarginPlain ELSE MarginMobile

max_width(s) == FSub(page_width(s), FInt(2 * margin(s)))

max_height(s) ==
    IF s = "plain" THEN FSub(page_height(s), FInt(2 * margin(s)))
    ELSE FSub(FSub(page_height(s), FInt(2 * margin(s))), FInt(PageNumberSpace))

\* ------------------------------------------------------------ scale and place
width_ratio(s, img_width) == FDiv(max_width(s), FInt(img_width))

height_ratio(s, img_height) == FDiv(max_height(s), FInt(img_height))

scale_factor_largest(s, img_width, img_height) ==
    IF FLess(width_ratio(s, img_width), height_ratio(s, img_height))
    THEN height_ratio(s, img_height) ELSE width_ratio(s, img_width)

scale_factor(s, img_width, img_height) ==
    FMin(width_ratio(s, img_width), height_ratio(s, img_height))

new_width(s, img_width, img_height) ==
    FMul(FInt(img_width), scale_factor(s, img_width, img_height))

new_height(s, img_width, img_height) ==
    FMul(FInt(img_height), scale_factor(s, img_width, img_height))

x_pos_at_margin(s, img_width, img_height) == FInt(margin(s))

x_pos(s, img_width, img_height) ==
    FDiv(FSub(page_width(s), new_width(s, img_width, img_height)), FInt(2))

y_pos(s, img_width, img_height) ==
    FDiv(FSub(page_height(s), new_height(s, img_width, img_height)), FInt(2))

\* c.drawImage(str(img_path), x_pos, y_pos, width=new_width, height=new_height)
drawImage(s, name, img_width, img_height) ==
    [name |-> name, img_width |-> img_width, img_height |-> img_height,
     scale_factor |-> scale_factor(s, img_width, img_height),
     x |-> x_pos(s, img_width, img_height),
     y |-> y_pos(s, img_width, img_height),
     width |-> new_width(s, img_width, img_height),
     height |-> new_height(s, img_width, img_height)]

\* ------------------------------------------------------------ text
PageNumberYPlain == 20
PageNumberYMobile == 10
PageNumberFontSize == 8

page_number_y(s) == IF s = "plain" THEN PageNumberYPlain ELSE PageNumberYMobile

\* c.drawCentredString(x, y, text) under the font size set before it.
drawCentredString(role, text, x, y, size) ==
    [role |-> role, text |-> text, x |-> x, y |-> y, size |-> size]

half_width(s) == FDiv(page_width(s), FInt(2))

\* the page number of the image at zero-based position i
page_number_renumbered(i, emitted) == emitted + 1

page_number(i, emitted) == i + 1

Newline == 10

RECURSIVE IndexOf(_, _, _)
IndexOf(str, ch, k) ==
    IF k > Len(str) THEN 0
    ELSE IF str[k] = ch THEN k ELSE IndexOf(str, ch, k + 1)

\* str.split(sep) for a one-character separator
RECURSIVE split(_, _)
split(str, sep) ==
    IF IndexOf(str, sep, 1) = 0 THEN <<str>>
    ELSE <<SubSeq(str, 1, IndexOf(str, sep, 1) - 1)>>
         \o split(SubSeq(str, IndexOf(str, sep, 1) + 1, Len(str)), sep)

TitleLineStep == 24
InstructionLineStep == 12
InstructionLines == 4

\* the title of the plain script: one string, one draw
title_draws_plain(text) ==
    <<drawCentredString("title", text, half_width("plain"),
                        FMul(page_height("plain"), FLit(6, 10)), 24)>>

\* the title of the mobile script: one draw per line of the title
title_draws_mobile(text) ==
    [k \in 1..Len(split(text, Newline)) |->
        drawCentredString("title", split(text, Newline)[k], half_width("mobile"),
            FSub(FMul(page_height("mobile"), FLit(65, 100)), FInt((k - 1) * TitleLineStep)),
            20)]

title_page(s, text) ==
    IF s = "plain"
    THEN [kind |-> "title", image |-> <<>>, number |-> 0, of |-> 0,
          texts |-> title_draws_plain(text) \o
            <<drawCentredString("date", <<>>, half_width(s),
                                FMul(page_height(s), FLit(5, 10)), 14),
              drawCentredString("author", <<>>, half_width(s),
                                FMul(page_height(s), FLit(45, 100)), 12)>>]
    ELSE [kind |-> "title", image |-> <<>>, number |-> 0, of |-> 0,
          texts |-> title_draws_mobile(text) \o
            <<drawCentredString("date", <<>>, half_width(s),
                                FMul(page_height(s), FLit(5, 10)), 12),
              drawCentredString("author", <<>>, half_width(s),
                                FMul(page_height(s), FLit(45, 100)), 10),
              drawCentredString("note", <<>>, half_width(s),
                                FMul(page_height(s), FLit(4, 10)), 8)>> \o
            [k \in 1..InstructionLines |->
                drawCentredString("instruction", <<>>, half_width(s),
                    FSub(FMul(page_height(s), FLit(3, 10)),
                         FInt((k - 1) * InstructionLineStep)), 8)]]

\* one image page: the image, then "Page n" (plain) or "Page n of total" (mobile)
image_page(s, name, img_width, img_height, i, emitted, total) ==
    [kind |-> "image",
     image |-> <<drawImage(s, name, img_width, img_height)>>,
     number |-> page_number(i, emitted),
     of |-> IF s = "mobile" THEN total ELSE 0,
     texts |-> <<drawCentredString("page_number", <<>>, half_width(s),
                                   FInt(page_number_y(s)), PageNumberFontSize)>>]

\* ------------------------------------------------------------ files
\* File names are strings of code points: "1" is <<49>>, "." is 46.
Ext == <<
    <<46, 112, 110, 103>>,        \* ".png"
    <<46, 106, 112, 103>>,        \* ".jpg"
    <<46, 106, 112, 101, 103>>,   \* ".jpeg"
    <<46, 103, 105, 102>> >>      \* ".gif"

\* the files a source directory may hold
FileNames == {
    <<49, 46, 112, 110, 103>>,            \* "1.png"
    <<49, 48, 46, 112, 110, 103>>,        \* "10.png"
    <<49, 46, 106, 112, 103>>,            \* "1.jpg"
    <<49, 48, 46, 106, 112, 101, 103>>,   \* "10.jpeg"
    <<50, 46, 103, 105, 102>>,            \* "2.gif"
    <<49, 46, 116, 120, 116>> }           \* "1.txt"

\* fnmatch of the pattern '*' + ext
Matches(name, ext) ==
    /\ Len(name) >= Len(ext)
    /\ SubSeq(name, Len(name) - Len(ext) + 1, Len(name)) = ext

\* Path(image_folder).glob('*' + ext), as a set (the order is the file system's)
glob(dir, ext) == {name \in dir : Matches(name, ext)}

Globbed(dir) == UNION {glob(dir, Ext[k]) : k \in 1..Len(Ext)}

GroupOf(name) == CHOOSE k \in 1..Len(Ext) : Matches(name, Ext[k])

\* The directories tried: at most MaxFiles files.
Directories == {d \in SUBSET FileNames : Cardinality(d) <= MaxFiles}

Enumerations(S) ==
    {f \in [1..Cardinality(S) -> S] : \A a, b \in 1..Cardinality(S) : a # b => f[a] # f[b]}

\* image_files after the four extend() calls: extension group by extension group,
\* each group in whatever order the file system lists it.
Collected(dir) ==
    {f \in Enumerations(Globbed(dir)) :
        \A a, b \in 1..Len(f) : a < b => GroupOf(f[a]) <= GroupOf(f[b])}

\* Python's str <
RECURSIVE StrLess(_, _)
StrLess(a, b) ==
    IF b = <<>> THEN FALSE
    ELSE IF a = <<>> THEN TRUE
    ELSE IF Head(a) # Head(b) THEN Head(a) < Head(b)
    ELSE StrLess(Tail(a), Tail(b))

\* x put into the sorted list after every element that is not greater (stable)
RECURSIVE Insert(_, _)
Insert(x, sorted) ==
    IF sorted = <<>> THEN <<x>>
    ELSE IF StrLess(x, Head(sorted)) THEN <<x>> \o sorted
    ELSE <<Head(sorted)>> \o Insert(x, Tail(sorted))

RECURSIVE InsertionSort(_)
InsertionSort(files) ==
    IF files = <<>> THEN <<>>
    ELSE Insert(files[Len(files)], InsertionSort(SubSeq(files, 1, Len(files) - 1)))

sort_skipped(files) == files

\* image_files.sort(key=lambda x: x.name)
sort(files) == InsertionSort(files)

no_images_ignored(files) == FALSE

\* if not image_files:
no_images(files) == files = <<>>

\* ------------------------------------------------------------ titles
None == [given |-> FALSE, text |-> <<>>]

Str(text) == [given |-> TRUE, text |-> text]

\* Python truth value of the title argument
Truthy(t) == t.given /\ Len(t.text) > 0

\* "Emergency Wireless Notifications\nConfiguration Guide"
WirelessTitle == Str(<<69, 109, 101, 114, 103, 101, 110, 99, 121, 32, 87, 105, 114,
    101, 108, 101, 115, 115, 32, 78, 111, 116, 105, 102, 105, 99, 97, 116, 105, 111,
    110, 115, 10, 67, 111, 110, 102, 105, 103, 117, 114, 97, 116, 105, 111, 110, 32,
    71, 117, 105, 100, 101>>)

\* "Home Front Command App\nConfiguration Guide"
HfcTitle == Str(<<72, 111, 109, 101, 32, 70, 114, 111, 110, 116, 32, 67, 111, 109,
    109, 97, 110, 100, 32, 65, 112, 112, 10, 67, 111, 110, 102, 105, 103, 117, 114,
    97, 116, 105, 111, 110, 32, 71, 117, 105, 100, 101>>)

GuideTitle(g) == IF g = 1 THEN WirelessTitle ELSE HfcTitle

\* titles of a direct call: None (the default), "", "A", "A\nB\nC"
Titles == {None, Str(<<>>), Str(<<65>>), Str(<<65, 10, 66, 10, 67>>)}

\* what Image.open(img_path) does for one file: it raises, or the image has a size
ImageSizes == {<<0, 4>>, <<3, 4>>}

Outcomes ==
    {[raises |-> "open", size |-> <<0, 0>>]}
    \cup {[raises |-> "none", size |-> sz] : sz \in ImageSizes}

\* an exception inside the try block of the loop body: Image.open raising, or the
\* ZeroDivisionError of max_width / img_width and max_height / img_height
RaisesInTry(o) == o.raises = "open" \/ o.size[1] = 0 \/ o.size[2] = 0

except_nothing(o) == FALSE

\* except Exception as e:
except_Exception(o) == RaisesInTry(o)

\* ------------------------------------------------------------ state
VARIABLES
    script,       \* which of the two scripts runs
    caller,       \* "main": the script's main(); "direct": a call of the function
    pc,           \* where control is
    guide,        \* the guide being converted: 1 wireless, 2 hfc (0: none yet)
    title,        \* the title argument of the running call
    folder,       \* the files of the source directory of the running call
    image_files,  \* the list image_files of the running call
    i,            \* images the loop has gone through
    processed,    \* how each of these files behaved when opened
    canvas,       \* the canvas of the running call
    pages,        \* the pages showPage has emitted into it
    out,          \* the console
    written,      \* per guide, whether its output PDF has been written
    ret           \* per guide, what its call returned

vars == <<script, caller, pc, guide, title, folder, image_files, i, processed, canvas,
          pages, out, written, ret>>

NoCanvas == [status |-> "none", info |-> FALSE]

Init ==
    /\ script \in Scripts
    /\ caller \in {"main", "direct"}
    /\ pc = IF caller = "main" THEN "main_wireless" ELSE "direct_call"
    /\ guide = 0
    /\ title = None
    /\ folder = {}
    /\ image_files = <<>>
    /\ i = 0
    /\ processed = <<>>
    /\ canvas = NoCanvas
    /\ pages = <<>>
    /\ out = <<>>
    /\ written = [g \in 1..2 |-> FALSE]
    /\ ret = [g \in 1..2 |-> "not_called"]

print(kind) == Append(out, <<kind, guide>>)

\* where the caller goes on when the call for the guide returns
AfterCall ==
    IF caller = "direct" THEN "exit"
    ELSE IF guide = 1 THEN "main_hfc" ELSE "main_end"

\* the function is entered: fresh locals
Call(g, t) ==
    /\ guide' = g
    /\ title' = t
    /\ folder' = {}
    /\ image_files' = <<>>
    /\ i' = 0
    /\ processed' = <<>>
    /\ canvas' = NoCanvas
    /\ pages' = <<>>
    /\ ret' = [ret EXCEPT ![g] = "running"]
    /\ pc' = "glob"

\* the else branch of main()'s directory test: only the mobile script has one
absence_reported(s) == s = "mobile"

\* main(): if os.path.exists(folder) and os.path.isdir(folder): ... [else: ...]
MainGuide(g) ==
    /\ pc = IF g = 1 THEN "main_wireless" ELSE "main_hfc"
    /\ \E is_dir \in BOOLEAN :
        IF is_dir
        THEN /\ out' = Append(out, <<"Creating PDF", g>>)
             /\ Call(g, GuideTitle(g))
        ELSE /\ out' = IF absence_reported(script)
                       THEN Append(out, <<"Error: Watermarked directory not found", g>>)
                       ELSE out
             /\ pc' = IF g = 1 THEN "main_hfc" ELSE "main_end"
             /\ UNCHANGED <<guide, title, folder, image_files, i, processed, canvas,
                            pages, ret>>
    /\ UNCHANGED <<script, caller, written>>

\* main(): the closing print
MainEnd ==
    /\ pc = "main_end"
    /\ out' = Append(out, <<"PDFs saved to", 0>>)
    /\ pc' = "exit"
    /\ UNCHANGED <<script, caller, guide, title, folder, image_files, i, processed,
                   canvas, pages, written, ret>>

\* the conversion function called by other code, with any title
DirectCall ==
    /\ pc = "direct_call"
    /\ \E t \in Titles : Call(1, t)
    /\ UNCHANGED <<script, caller, out, written>>

\* collect the image files, sort them, return False when there are none
Glob ==
    /\ pc = "glob"
    /\ \E dir \in Directories : \E files \in Collected(dir) :
        /\ folder' = dir
        /\ image_files' = sort(files)
        /\ IF no_images(image_files')
           THEN /\ out' = print("No images found")
                /\ ret' = [ret EXCEPT ![guide] = "False"]
                /\ pc' = AfterCall
           ELSE /\ pc' = "canvas"
                /\ UNCHANGED <<out, ret>>
    /\ UNCHANGED <<script, caller, guide, title, i, processed, canvas, pages, written>>

\* c = canvas.Canvas(...) and the title page
TitlePage ==
    /\ pc = "canvas"
    /\ canvas' = [status |-> "open", info |-> script = "mobile" /\ Truthy(title)]
    /\ pages' = IF Truthy(title) THEN <<title_page(script, title.text)>> ELSE <<>>
    /\ pc' = "loop"
    /\ UNCHANGED <<script, caller, guide, title, folder, image_files, i, processed,
                   out, written, ret>>

\* one iteration of the loop over image_files, for a file that behaves as o
Iteration(o) ==
    /\ pc = "loop"
    /\ i < Len(image_files)
    /\ processed' = Append(processed, o)
    /\ IF RaisesInTry(o)
       THEN IF except_Exception(o)
            THEN /\ out' = Append(print("Adding image"), <<"Error processing", guide>>)
                 /\ i' = i + 1
                 /\ UNCHANGED <<pc, pages, ret>>
            ELSE /\ out' = print("Adding image")
                 /\ pc' = "raised"
                 /\ ret' = [ret EXCEPT ![guide] = "raised"]
                 /\ UNCHANGED <<i, pages>>
       ELSE /\ out' = print("Adding image")
            /\ pages' = Append(pages,
                    image_page(script, image_files[i + 1], o.size[1], o.size[2], i,
                               Cardinality({k \in 1..Len(pages) : pages[k].kind = "image"}),
                               Len(image_files)))
            /\ i' = i + 1
            /\ UNCHANGED <<pc, ret>>
    /\ UNCHANGED <<script, caller, guide, title, folder, image_files, canvas, written>>

ProcessImage == \E o \in Outcomes : Iteration(o)

save_result_true(saved) == "True"

\* return True after c.save(), return False in its except clause
save_result(saved) == IF saved THEN "True" ELSE "False"

\* c.save() and the return
Save ==
    /\ pc = "loop"
    /\ i = Len(image_files)
    /\ \E saved \in BOOLEAN :
        /\ canvas' = [canvas EXCEPT !.status = IF saved THEN "saved" ELSE "save_failed"]
        /\ written' = [written EXCEPT ![guide] = saved]
        /\ out' = print(IF saved THEN "PDF created successfully" ELSE "Error saving PDF")
        /\ ret' = [ret EXCEPT ![guide] = save_result(saved)]
    /\ pc' = AfterCall
    /\ UNCHANGED <<script, caller, guide, title, folder, image_files, i, processed, pages>>

Next ==
    \/ MainGuide(1)
    \/ MainGuide(2)
    \/ MainEnd
    \/ DirectCall
    \/ Glob
    \/ TitlePage
    \/ ProcessImage
    \/ Save

Spec == Init /\ [][Next]_vars

\* ------------------------------------------------------------ layout alone
\* The loop of a direct call without title over the directory {"1.png"}, for
\* every image size up to MaxDim x MaxDim.
InitLayout ==
    /\ script \in Scripts
    /\ caller = "direct"
    /\ pc = "loop"
    /\ guide = 1
    /\ title = None
    /\ folder = {<<49, 46, 112, 110, 103>>}
    /\ image_files = << <<49, 46, 112, 110, 103>> >>
    /\ i = 0
    /\ processed = <<>>
    /\ canvas = [status |-> "open", info |-> FALSE]
    /\ pages = <<>>
    /\ out = <<>>
    /\ written = [g \in 1..2 |-> FALSE]
    /\ ret = [g \in 1..2 |-> IF g = 1 THEN "running" ELSE "not_called"]

ProcessSized ==
    \E w \in 1..MaxDim, h \in 1..MaxDim : Iteration([raises |-> "none", size |-> <<w, h>>])

NextLayout == ProcessSized \/ Save

SpecLayout == InitLayout /\ [][NextLayout]_vars

\* ------------------------------------------------------------ what the claims speak of
ImagePages == SelectSeq(pages, LAMBDA p : p.kind = "image")

TitlePages == SelectSeq(pages, LAMBDA p : p.kind = "title")

\* the call for the current guide has returned (its locals are still in place)
Returned == guide # 0 /\ ret[guide] \in {"True", "False"}

\* the file was processed without error
Succeeded(o) == o.raises = "none" /\ o.size[1] > 0 /\ o.size[2] > 0

Reported(kind, g) == \E k \in 1..Len(out) : out[k] = <<kind, g>>

\* the name ends with one of the four image extensions
HasImageExtension(name) ==
    \E e \in {<<46, 112, 110, 103>>, <<46, 106, 112, 103>>,
              <<46, 106, 112, 101, 103>>, <<46, 103, 105, 102>>} :
        /\ Len(name) >= Len(e)
        /\ \A j \in 1..Len(e) : name[Len(name) - Len(e) + j] = e[j]

\* a sorts strictly before b in lexicographic order of code points
NameBefore(a, b) ==
    \E k \in 1..Len(b) :
        /\ \A j \in 1..(k - 1) : j <= Len(a) /\ a[j] = b[j]
        /\ k = Len(a) + 1 \/ (k <= Len(a) /\ a[k] < b[k])

\* the number of '\n'-delimited segments of a text
Segments(text) == 1 + Cardinality({k \in 1..Len(text) : text[k] = 10})

\* a - b in units of 2^MinExp(a, b), exactly
Diff(a, b) == Aligned(a, b)[1] - Aligned(a, b)[2]

\* a <= b * (1 + 3 * 2^-Prec): a exceeds b by no more than two roundings can
AtMostRounded(a, b) == Diff(a, b) * 2^Prec <= 3 * Aligned(a, b)[2]

\* |a - b| <= 3 * 2^-Prec * b
EqualRounded(a, b) == Abs(Diff(a, b)) * 2^Prec <= 3 * Aligned(a, b)[2]

\* ------------------------------------------------------------ C1
\* C1: the image pages emitted are exactly as many as the images processed without
\* error, there is one title page iff a non-empty title was supplied, and no error
\* of an image reaches the caller: the call returns, having gone through every file.
C1_PagesMatchImages ==
    /\ pc # "raised"
    /\ \A g \in 1..2 : ret[g] # "raised"
    /\ (guide # 0 /\ canvas.status # "none") =>
        /\ Len(ImagePages) = Cardinality({k \in 1..Len(processed) : Succeeded(processed[k])})
        /\ Len(TitlePages) = IF title.given /\ title.text # <<>> THEN 1 ELSE 0
        /\ Len(pages) = Len(ImagePages) + Len(TitlePages)
    /\ (Returned /\ image_files # <<>>) =>
        /\ Len(processed) = Len(image_files)
        /\ canvas.status \in {"saved", "save_failed"}

\* one corrupt and two valid images, with a title: two image pages, one title page
C1_Witness ==
    /\ Returned
    /\ Len(image_files) = 3
    /\ Cardinality({k \in 1..3 : processed[k].raises = "open"}) = 1
    /\ Cardinality({k \in 1..3 : Succeeded(processed[k])}) = 2
    /\ Len(ImagePages) = 2
    /\ Len(pages) = 3

C3_PageNumbers ==
    \A k \in 1..Len(pages) :
        pages[k].kind = "image" =>
            /\ pages[k].number \in 1..Len(image_files)
            /\ image_files[pages[k].number] = pages[k].image[1].name
            /\ pages[k].number <= i

\* after a title page and a skipped first image, the first image page is "Page 2"
C3_Witness ==
    /\ Len(pages) >= 2
    /\ pages[1].kind = "title"
    /\ pages[2].kind = "image" /\ pages[2].number = 2
    /\ ~Succeeded(processed[1])

\* ------------------------------------------------------------ C4
\* C4: a source directory without a .png, .jpg, .jpeg or .gif file makes the call
\* report "No images found" and return False; no canvas is made, nothing is saved.
C4_NoImages ==
    (/\ guide # 0
     /\ pc # "glob"
     /\ ret[guide] # "not_called"
     /\ \A n \in folder : ~HasImageExtension(n)) =>
        /\ ret[guide] = "False"
        /\ canvas = NoCanvas
        /\ pages = <<>>
        /\ ~written[guide]
        /\ Reported("No images found", guide)
        /\ pc # "raised"

\* the directory holds "1.txt" only
C4_Witness ==
    /\ guide # 0
    /\ pc # "glob"
    /\ folder = {<<49, 46, 116, 120, 116>>}
    /\ ret[guide] = "False"

\* ------------------------------------------------------------ C5
PastCheck(g) == IF g = 1 THEN pc # "main_wireless" ELSE pc \in {"main_end", "exit"}

\* C5: in main(), a guide whose source directory is missing is reported on the
\* console, its conversion is not called, and the other guide is still attempted.
C5_AbsentDirectoryReported ==
    \A g \in 1..2 :
        (caller = "main" /\ PastCheck(g) /\ ret[g] = "not_called") =>
            /\ \E k \in 1..Len(out) : out[k][2] = g
            /\ pc # "raised"

\* ------------------------------------------------------------ C6
\* C6: a failed save is reported and the call returns False, after which main()
\* goes on to the next guide; True is returned only when the file was written.
C6_SaveFailure ==
    /\ \A g \in 1..2 : ret[g] = "True" => written[g]
    /\ (guide # 0 /\ canvas.status = "save_failed") =>
        /\ ret[guide] = "False"
        /\ Reported("Error saving PDF", guide)
        /\ ~written[guide]
        /\ pc \in IF caller = "direct" THEN {"exit"}
                  ELSE IF guide = 1 THEN {"main_hfc", "main_end", "exit"}
                  ELSE {"main_end", "exit"}

\* the save of the first guide failed and main() is converting the second
C6_Witness ==
    /\ caller = "main"
    /\ guide = 2
    /\ ret[1] = "False"
    /\ Reported("Error saving PDF", 1)
    /\ ret[2] = "running"

\* ------------------------------------------------------------ C7
\* the available area: the page less the margins, and in the mobile script less
\* the space kept for the page number
AvailableWidth == FSub(page_width(script), FInt(2 * margin(script)))

AvailableHeight ==
    IF script = "mobile"
    THEN FSub(FSub(page_height(script), FInt(2 * margin(script))), FInt(PageNumberSpace))
    ELSE FSub(page_height(script), FInt(2 * margin(script)))

\* the scale factor is the smaller ratio and both sides are scaled by it
ScaledByMinRatio(d) ==
    /\ d.scale_factor = FMin(FDiv(AvailableWidth, FInt(d.img_width)),
                             FDiv(AvailableHeight, FInt(d.img_height)))
    /\ d.width = FMul(FInt(d.img_width), d.scale_factor)
    /\ d.height = FMul(FInt(d.img_height), d.scale_factor)

WidthLimits(d) ==
    FLeq(FDiv(AvailableWidth, FInt(d.img_width)), FDiv(AvailableHeight, FInt(d.img_height)))

\* C7 as stated: the scale factor is the minimum of the two ratios, both sides are
\* scaled by it, the scaled size is at most the available area in both directions
\* and equals it on the limiting axis.
C7_FitsExactly ==
    \A k \in 1..Len(ImagePages) :
        LET d == ImagePages[k].image[1]
        IN  /\ ScaledByMinRatio(d)
            /\ FLeq(d.width, AvailableWidth)
            /\ FLeq(d.height, AvailableHeight)
            /\ d.width = AvailableWidth \/ d.height = AvailableHeight

\* C7 as amended: the same up to the rounding of the division and of the
\* multiplication: neither side exceeds the available extent by more than the
\* relative error 3 * 2^-Prec, the limiting side is within that error of the
\* available extent, and so is the aspect ratio of the original one.
C7_FitsWithinRounding ==
    \A k \in 1..Len(ImagePages) :
        LET d == ImagePages[k].image[1]
        IN  /\ ScaledByMinRatio(d)
            /\ AtMostRounded(d.width, AvailableWidth)
            /\ AtMostRounded(d.height, AvailableHeight)
            /\ IF WidthLimits(d) THEN EqualRounded(d.width, AvailableWidth)
                                 ELSE EqualRounded(d.height, AvailableHeight)
            /\ Abs(Aligned(d.width, d.height)[1] * d.img_height
                   - Aligned(d.width, d.height)[2] * d.img_width) * 2^Prec
               <= 3 * Aligned(d.width, d.height)[2] * d.img_width

\* an image whose rounded width differs from the available width, being the limiting one
C7_Witness ==
    \E k \in 1..Len(ImagePages) :
        LET d == ImagePages[k].image[1]
        IN  /\ WidthLimits(d)
            /\ d.img_width > 1 /\ d.img_height > 1
            /\ d.width # AvailableWidth

TitleLines(p) == SelectSeq(p.texts, LAMBDA t : t.role = "title")

\* C9: with a title there is one title page, before every image page; it shows
\* the title as one centred line per '\n'-delimited segment, each lower than the
\* one before, and the date and the author.
C9_TitleLines ==
    /\ (guide # 0 /\ canvas.status # "none" /\ Truthy(title)) =>
        (Len(TitlePages) = 1 /\ pages[1].kind = "title")
    /\ \A k \in 1..Len(pages) :
        pages[k].kind = "title" =>
            /\ Len(TitleLines(pages[k])) = Segments(title.text)
            /\ \A a \in 1..Len(TitleLines(pages[k])) :
                /\ TitleLines(pages[k])[a].text = split(title.text, Newline)[a]
                /\ TitleLines(pages[k])[a].x = half_width(script)
                /\ a > 1 => FLess(TitleLines(pages[k])[a].y, TitleLines(pages[k])[a - 1].y)
            /\ \E t \in 1..Len(pages[k].texts) : pages[k].texts[t].role = "date"
            /\ \E t \in 1..Len(pages[k].texts) : pages[k].texts[t].role = "author"

\* ------------------------------------------------------------ C10
\* a in units of 2^e
Units(a, e) == a[1] * 2^(a[2] - e)

\* the exponent of the finest of the numbers of one axis
Finest(pos, ext, len) ==
    LET e == MinExp(pos, ext) IN IF e < len[2] THEN e ELSE len[2]

\* margin <= pos and pos + ext <= len - margin, exactly but for what the rounding
\* of the scaled size and of the position can add: 3 * 2^-Prec of the page length
InsideMargins(pos, ext, len, m) ==
    LET e == Finest(pos, ext, len)
        slack == (3 * Units(len, e)) \div 2^Prec
    IN  /\ m * 2^(0 - e) <= Units(pos, e) + slack
        /\ Units(pos, e) + Units(ext, e) <= Units(len, e) - m * 2^(0 - e) + slack

\* C10: the placed image lies inside the page inset by the margin on all four
\* sides (as far as rounding lets it, see C7), and its bottom edge is at or above
\* the top of the page-number text: the baseline (20 plain, 10 mobile) plus the
\* 8-point font height.
C10_ImageClearOfPageNumber ==
    \A k \in 1..Len(ImagePages) :
        LET d == ImagePages[k].image[1]
        IN  /\ InsideMargins(d.x, d.width, page_width(script), margin(script))
            /\ InsideMargins(d.y, d.height, page_height(script), margin(script))
            /\ FLeq(FInt((IF script = "plain" THEN 20 ELSE 10) + 8), d.y)

\* the first two conjuncts alone, which hold in both scripts
InsideMarginsAlways ==
    \A k \in 1..Len(ImagePages) :
        LET d == ImagePages[k].image[1]
        IN  /\ InsideMargins(d.x, d.width, page_width(script), margin(script))
            /\ InsideMargins(d.y, d.height, page_height(script), margin(script))

\* the third conjunct in the mobile script, where it holds
MobileClearOfPageNumber ==
    script = "mobile" =>
        \A k \in 1..Len(ImagePages) : FLeq(FInt(10 + 8), ImagePages[k].image[1].y)

====
